---- MODULE Spec2Model ----
(***************************************************************************)
(* ProdAPI: users, a directed friend graph, posts and like/dislike         *)
(* reactions, served by request handlers that run as async tasks, each     *)
(* with its own database session (READ COMMITTED: every query sees what    *)
(* is committed at the moment it runs; every commit is one atomic write).  *)
(*                                                                         *)
(* A request lives in a slot.  A handler that awaits between a read and a  *)
(* write is split at those awaits, so that other requests can run in       *)
(* between.  Spec is the whole service with the slots running              *)
(* concurrently.  The handlers of reactions read and write posts and       *)
(* reactions only, those of the access gate users and friendships only,    *)
(* so each group is also checked alone: SpecLedger (reactions,             *)
(* concurrent), SpecLedgerSeq (reactions, one request at a time),          *)
(* SpecGateSeq (profile edits, friends and reads, one request at a time)   *)
(* and SpecFriends (friend add and remove, concurrent).  SpecSeq is every  *)
(* endpoint behind a token with one request at a time.  SpecListingSeq is  *)
(* the friends and their listing among three users, one request at a time. *)
(* Registration writes users only: SpecRegister (concurrent) and           *)
(* SpecRegisterSeq (one request at a time).                                *)
(*                                                                         *)
(* Every request comes with a bearer token, which the dependency           *)
(* get_current_user_by_token turns into the current user or into a 401.    *)
(* SpecToken is the life of a token alone: create_access_token and         *)
(* decode_access_token while the clock advances.                           *)
(***************************************************************************)
EXTENDS Integers, FiniteSets, Sequences, TLC

\* ---------------------------------------------------------------- bounds
MaxUsers == 2
MaxReqs == 3
MaxInFlight == 2
MaxClock == 3
MaxDelta == 3

UserIds == 1..MaxUsers
Slots == 1..MaxInFlight

\* posts.id is a uuid4 string: one post exists, the other id names no post
FirstPost == "post-1"
PostIds == {FirstPost, "post-2"}

\* ------------------------------------------------------------- constants
\* Optional[...] values: None is the empty set, a value v is {v}.
None == {}
The(S) == CHOOSE v \in S : TRUE

\* users.login of the user with a given id, and a login nobody registered
LoginNames == <<"alice", "bob", "carol", "dave">>
LoginOf(id) == LoginNames[id]
EmailNames == <<"alice@mail", "bob@mail", "carol@mail", "dave@mail">>
EmailOf(id) == EmailNames[id]
\* users.phone is nullable: the first user gave a phone, the others gave none
PhoneOf(id) == IF id = 1 THEN {"+1"} ELSE None
UnknownLogin == "nobody"

\* reactions.reaction_type is ReactionType.like, ReactionType.dislike or NULL
NullType == "null"

\* response reason texts (the detail strings of the HTTPExceptions)
ReasonNone == ""
ReasonProfile == "profile: no such user or no access"
ReasonPost == "post not found or no access"
ReasonFeedUser == "user not found or no access"
ReasonFriend == "user with this login not found"
ReasonUnauthorized == "token does not exist or is incorrect"
ReasonCountry == "country with this code not found"
ReasonConflict == "user with this e-mail, phone or login is already registered"
ReasonServerError == "Internal Server Error"
ReasonCancelled == "cancelled"

\* -------------------------------------------------------------------- state
\* users, friendships, posts, reactions: the tables.  friendship_seq: the
\* autoincrement sequence of friendships.id.  reqs: the request of every slot
\* (its position, its arguments, the objects its session holds, its response).
\* nreq: requests started so far.  response: the last response sent, with the
\* request it answers.  now: the clock (datetime.utcnow()) in ticks.  issued:
\* the access token created last, with the arguments and the instant of the
\* call.  decoded: what decode_access_token returned for it last, and when.
VARIABLES users, friendships, friendship_seq, posts, reactions, reqs, nreq, response,
          now, issued, decoded

vars == <<users, friendships, friendship_seq, posts, reactions, reqs, nreq, response,
          now, issued, decoded>>
tokens == <<now, issued, decoded>>
store == <<users, friendships, friendship_seq, posts, reactions>>

\* the logins requests name: those of the users, and one nobody has
Logins == {users[id].login : id \in DOMAIN users} \cup {UnknownLogin}

ReactionKinds == {"like", "dislike"}
ReadKinds == {"profile", "post", "feed"}
NoPrev == [kind |-> "none", user |-> 0, login |-> "", post_id |-> "", status |-> 0]

IdleReq ==
    [pc |-> "idle", kind |-> "none", token |-> None, user |-> 0, login |-> "", post_id |-> "",
     is_public |-> None, user_data |-> None, post |-> None, reaction |-> None, friend |-> None,
     offset |-> 0, limit |-> 0, friends |-> <<>>,
     status |-> 0, reason |-> ReasonNone, body |-> None,
     pre |-> [users |-> <<>>, posts |-> <<>>, reactions |-> {}, friendships |-> {}],
     prev |-> NoPrev]

\* ------------------------------------------------------------------ queries
get_user_by_login(login) == {id \in DOMAIN users : users[id].login = login}

get_user_by_id(user_id) == {id \in DOMAIN users : id = user_id}

\* mutant: the is_public filter of the query is dropped
get_any_user_by_login(login) ==
    {id \in DOMAIN users : users[id].login = login}

get_public_user_by_login(login) ==
    {id \in DOMAIN users : users[id].is_public /\ users[id].login = login}

\* mutant: the query filters on friend_id and selects user_id (the edges
\* towards the user instead of those from the user)
get_user_all_followers(user_id) ==
    LET friend_ids == {f.user_id : f \in {g \in friendships : g.friend_id = user_id}}
    IN  {id \in DOMAIN users : id \in friend_ids}

get_user_all_friends(user_id) ==
    LET friend_ids == {f.friend_id : f \in {g \in friendships : g.user_id = user_id}}
    IN  {id \in DOMAIN users : id \in friend_ids}

get_user_friend(user_id, friend_id) ==
    {f \in friendships : f.user_id = user_id /\ f.friend_id = friend_id}

\* ------------------------------------------------------------ access tokens
\* datetime.utcnow() has sub-second resolution: the clock counts ticks
TicksPerSecond == 2

\* Config: the lifetime of a token when none is given, and the signing key
ACCESS_TOKEN_EXPIRES_MINUTES == 0
ACCESS_TOKEN_EXPIRES_HOURS == 12
ACCESS_TOKEN_EXPIRES_DAYS == 0
RANDOM_SECRET == "RANDOM_SECRET"

\* timedelta(days=, hours=, minutes=) in ticks
timedelta(days, hours, minutes) ==
    (((days * 24 + hours) * 60) + minutes) * 60 * TicksPerSecond

\* jwt.encode: a datetime exp is written as whole epoch seconds (timegm of its
\* utctimetuple, the fraction of a second dropped); the token is signed with key
jwt_encode(payload, key) ==
    [wellformed |-> TRUE,
     payload |-> [payload EXCEPT !.exp = {The(@) \div TicksPerSecond}],
     key |-> key]

\* jwt.decode: the payload, or None where PyJWT raises (DecodeError on a
\* malformed token, InvalidSignatureError, ExpiredSignatureError when
\* exp <= now)
jwt_decode(jwt, key, utcnow) ==
    IF ~jwt.wellformed \/ jwt.key # key THEN None
    ELSE IF jwt.payload.exp # None /\ The(jwt.payload.exp) * TicksPerSecond <= utcnow
    THEN None
    ELSE {jwt.payload}

\* create_access_token(data, expire_delta) called at utcnow; expire_delta is
\* None or a timedelta in ticks, and `if expire_delta:` is false for both
\* None and timedelta(0)
create_access_token(data, expire_delta, utcnow) ==
    LET expire == IF expire_delta # None /\ The(expire_delta) # 0
                  THEN utcnow + The(expire_delta)
                  ELSE utcnow + timedelta(ACCESS_TOKEN_EXPIRES_DAYS,
                                          ACCESS_TOKEN_EXPIRES_HOURS,
                                          ACCESS_TOKEN_EXPIRES_MINUTES)
        to_encode == [sub |-> data.sub, exp |-> {expire}]
    IN  jwt_encode(to_encode, RANDOM_SECRET)

\* the default lifetime of a token in ticks
Lifetime ==
    timedelta(ACCESS_TOKEN_EXPIRES_DAYS, ACCESS_TOKEN_EXPIRES_HOURS, ACCESS_TOKEN_EXPIRES_MINUTES)

\* decode_access_token(token) called at utcnow: the payload or None
decode_access_token(token, utcnow) == jwt_decode(token, RANDOM_SECRET, utcnow)

\* mutant: the payload is read from the token, the token is not verified
get_current_user_by_payload(token, utcnow) ==
    LET payload == {token.payload}
        user_login == The(payload).sub
    IN  IF payload = None THEN None
        ELSE IF user_login = None THEN None
        ELSE get_user_by_login(The(user_login))

\* get_current_user_by_token called at utcnow: the user, or None where the
\* dependency raises UnauthorizedResponse
get_current_user_by_token(token, utcnow) ==
    LET payload == decode_access_token(token, utcnow)
        user_login == The(payload).sub
    IN  IF payload = None THEN None
        ELSE IF user_login = None THEN None
        ELSE get_user_by_login(The(user_login))

\* A SELECT without ORDER BY returns the rows as the table holds them: in
\* the order of their insertion, which is that of their ids.
RECURSIVE Ascending(_)
Ascending(ids) ==
    IF ids = {} THEN <<>>
    ELSE LET first == CHOOSE id \in ids : \A other \in ids : id <= other
         IN  <<first>> \o Ascending(ids \ {first})

\* .offset(offset).limit(limit)
Page(rows, offset, limit) ==
    IF offset >= Len(rows) THEN <<>>
    ELSE SubSeq(rows, offset + 1, IF offset + limit < Len(rows) THEN offset + limit ELSE Len(rows))

\* the users whose id is among the friend_ids of the user's edges, one page
get_user_friends_for_pagination(user_id, offset, limit) ==
    LET friend_ids == {f.friend_id : f \in {g \in friendships : g.user_id = user_id}}
    IN  Page(Ascending({id \in DOMAIN users : id \in friend_ids}), offset, limit)

\* the added_at of the user's edges, one page
get_user_friends_added_at_for_pagination(user_id, offset, limit) ==
    LET edges == {f \in friendships : f.user_id = user_id}
        ids == Ascending({f.id : f \in edges})
    IN  Page([i \in DOMAIN ids |-> (CHOOSE f \in edges : f.id = ids[i]).added_at],
             offset, limit)

\* get_friends_list: zip(friends, added_ats)
get_friends_list(friends, added_ats) ==
    LET n == IF Len(friends) < Len(added_ats) THEN Len(friends) ELSE Len(added_ats)
    IN  [i \in 1..n |-> [login |-> users[friends[i]].login, addedAt |-> added_ats[i]]]

get_post_by_id(post_id) == {posts[p] : p \in {q \in DOMAIN posts : q = post_id}}

get_all_user_posts(user_id) == {posts[p] : p \in {q \in DOMAIN posts : posts[q].author = user_id}}

get_user_reaction_to_post(user_id, post_id) ==
    {r \in reactions : r.post_id = post_id /\ r.user_id = user_id}

\* ---------------------------------------------------------------- responses
Response(status, reason, body) == [status |-> status, reason |-> reason, body |-> body]

ServerError == Response(500, ReasonServerError, None)

StatusOk == Response(200, ReasonNone, {[status |-> "ok"]})

UserResponseModel(id) ==
    [login |-> users[id].login, isPublic |-> users[id].is_public]

\* PostModel: likesCount and dislikesCount are conint(ge=0)
PostModelValid(likesCount, dislikesCount) == likesCount >= 0 /\ dislikesCount >= 0

PostModel(post, author) ==
    [id |-> post.id, author |-> author,
     likesCount |-> post.likes_count, dislikesCount |-> post.dislikes_count]

PostResponse(post, author) ==
    IF PostModelValid(post.likes_count, post.dislikes_count)
    THEN Response(200, ReasonNone, {PostModel(post, author)})
    ELSE ServerError

get_posts_list(post_rows, author) ==
    {[id |-> post.id, author |-> author,
      likesCount |-> post.likes_count, dislikesCount |-> post.likes_count] : post \in post_rows}

\* ------------------------------------------------------------ read handlers
\* GET /api/profiles/{login}
send_profile_by_login(current_user, login) ==
    IF users[current_user].login = login
    THEN Response(200, ReasonNone, {UserResponseModel(current_user)})
    ELSE LET user_friend_logins == {users[f].login : f \in get_user_all_friends(current_user)}
         IN  IF login \notin user_friend_logins
             THEN LET user == get_public_user_by_login(login)
                  IN  IF user = None
                      THEN Response(403, ReasonProfile, None)
                      ELSE Response(200, ReasonNone, {UserResponseModel(The(user))})
             ELSE Response(200, ReasonNone, {UserResponseModel(The(get_user_by_login(login)))})

\* GET /api/posts/{postId}
send_post(current_user, postId) ==
    LET post == get_post_by_id(postId)
    IN  IF post = None
        THEN Response(404, ReasonPost, None)
        ELSE LET post_author == The(get_user_by_id(The(post).author))
                 post_author_friend_ids == get_user_all_friends(post_author)
             IN  IF /\ current_user # post_author
                    /\ ~users[post_author].is_public
                    /\ current_user \notin post_author_friend_ids
                 THEN Response(404, ReasonPost, None)
                 ELSE PostResponse(The(post), users[post_author].login)

\* GET /api/posts/feed/{login}, with the default offset and limit
send_user_posts_by_login(current_user, login) ==
    LET post_author == get_user_by_login(login)
    IN  IF post_author = None
        THEN Response(404, ReasonFeedUser, None)
        ELSE LET author == The(post_author)
                 post_author_friend_ids == get_user_all_friends(author)
                 user_posts == get_all_user_posts(author)
             IN  IF /\ current_user # author
                    /\ ~users[author].is_public
                    /\ current_user \notin post_author_friend_ids
                 THEN Response(404, ReasonPost, None)
                 ELSE IF \A post \in user_posts : PostModelValid(post.likes_count, post.likes_count)
                      THEN Response(200, ReasonNone, get_posts_list(user_posts, login))
                      ELSE ServerError

\* GET /api/posts/feed/my
send_my_posts(current_user) ==
    LET my_posts == get_all_user_posts(current_user)
    IN  IF \A post \in my_posts : PostModelValid(post.likes_count, post.likes_count)
        THEN Response(200, ReasonNone, get_posts_list(my_posts, users[current_user].login))
        ELSE ServerError

\* ------------------------------------------------------------ reaction ledger
\* mutant: a like that replaces a dislike does not take the dislike back
add_like_keeps_dislike(post, reaction) ==
    IF reaction.reaction_type = "like"
    THEN [likes_count |-> post.likes_count, dislikes_count |-> post.dislikes_count,
          reaction_type |-> "like"]
    ELSE [likes_count |-> post.likes_count + 1, dislikes_count |-> post.dislikes_count,
          reaction_type |-> "like"]

\* mutant: a dislike counts again when the user's reaction is a dislike already
add_dislike_counts_again(post, reaction) ==
    IF reaction.reaction_type = "like"
    THEN [likes_count |-> post.likes_count - 1, dislikes_count |-> post.dislikes_count + 1,
          reaction_type |-> "dislike"]
    ELSE [likes_count |-> post.likes_count, dislikes_count |-> post.dislikes_count + 1,
          reaction_type |-> "dislike"]

\* mutant: the commit writes the counters and leaves the reaction row as it was
flush_reaction_skipped(row, loaded, new) == row

\* add_like_to_post / add_dislike_to_post on the objects the session holds:
\* the new (likes_count, dislikes_count, reaction_type)
add_like_to_post(post, reaction) ==
    IF reaction.reaction_type = "dislike"
    THEN [likes_count |-> post.likes_count + 1, dislikes_count |-> post.dislikes_count - 1,
          reaction_type |-> "like"]
    ELSE IF reaction.reaction_type = NullType
    THEN [likes_count |-> post.likes_count + 1, dislikes_count |-> post.dislikes_count,
          reaction_type |-> "like"]
    ELSE [likes_count |-> post.likes_count, dislikes_count |-> post.dislikes_count,
          reaction_type |-> "like"]

add_dislike_to_post(post, reaction) ==
    IF reaction.reaction_type = "like"
    THEN [likes_count |-> post.likes_count - 1, dislikes_count |-> post.dislikes_count + 1,
          reaction_type |-> "dislike"]
    ELSE IF reaction.reaction_type = NullType
    THEN [likes_count |-> post.likes_count, dislikes_count |-> post.dislikes_count + 1,
          reaction_type |-> "dislike"]
    ELSE [likes_count |-> post.likes_count, dislikes_count |-> post.dislikes_count,
          reaction_type |-> "dislike"]

\* The flush of the commit: SQLAlchemy writes the attributes whose value
\* differs from the one the session loaded, and only those.
flush_post(row, loaded, new) ==
    [row EXCEPT !.likes_count = IF new.likes_count # loaded.likes_count
                                THEN new.likes_count ELSE @,
                !.dislikes_count = IF new.dislikes_count # loaded.dislikes_count
                                   THEN new.dislikes_count ELSE @]

flush_reaction(row, loaded, new) ==
    IF row.id = loaded.id /\ new.reaction_type # loaded.reaction_type
    THEN [row EXCEPT !.reaction_type = new.reaction_type]
    ELSE row

\* ---------------------------------------------------------------------- Init
Init ==
    /\ users = [id \in UserIds |-> [login |-> LoginOf(id), email |-> EmailOf(id), is_public |-> FALSE,
                     phone |-> PhoneOf(id)]]
    /\ friendships = {}
    /\ friendship_seq = 0
    /\ posts = [p \in {FirstPost} |->
                    [id |-> p, author |-> 1, likes_count |-> 0, dislikes_count |-> 0]]
    /\ reactions = {}
    /\ reqs = [s \in Slots |-> IdleReq]
    /\ nreq = 0
    /\ response = IdleReq
    /\ now = 0
    /\ issued = None
    /\ decoded = None

\* ---------------------------------------------------------------- request life
Free(s) == reqs[s].pc = "idle"

\* the request answered last, when it was a like, a dislike or a friend add
\* that ran to its response
PrevOf(old) ==
    IF old.kind \in ReactionKinds \cup {"friends_add"} /\ old.reason # ReasonCancelled
    THEN [kind |-> old.kind, user |-> old.user, login |-> old.login, post_id |-> old.post_id,
          status |-> old.status]
    ELSE NoPrev

\* the bearer tokens requests come with: the token of a sign-in just made
\* with every login, one of a sign-in a default lifetime ago, one whose
\* payload has no sub, one signed with another key, one that is no JWT
BearerTokens ==
    LET fresh(sub) == create_access_token([sub |-> sub], None, now)
    IN  {fresh({login}) : login \in Logins}
          \cup {create_access_token([sub |-> {LoginOf(1)}], None, now - Lifetime),
                fresh(None),
                [fresh({LoginOf(1)}) EXCEPT !.key = "another key"],
                [fresh({LoginOf(1)}) EXCEPT !.wellformed = FALSE]}

\* A request arrives with a token.
NewReq(s, kind, pc, token, current_user, login, post_id, is_public) ==
    [IdleReq EXCEPT !.pc = pc, !.kind = kind, !.token = {token}, !.user = current_user,
                    !.login = login, !.post_id = post_id, !.is_public = is_public,
                    !.pre = [users |-> users, posts |-> posts, reactions |-> reactions,
                             friendships |-> friendships],
                    !.prev = PrevOf(response)]

Finish(r, resp) ==
    [r EXCEPT !.pc = "done", !.status = resp.status, !.reason = resp.reason, !.body = resp.body]

Arrives(s) == Free(s) /\ nreq < MaxReqs

\* the request of slot s goes on as r
Continue(s, r) ==
    /\ reqs' = [reqs EXCEPT ![s] = r]
    /\ response' = response
    /\ UNCHANGED tokens

\* the request r of slot s is answered with resp
Respond(s, r, resp) ==
    /\ reqs' = [reqs EXCEPT ![s] = IdleReq]
    /\ response' = Finish(r, resp)
    /\ UNCHANGED tokens

\* the dependency get_current_user_by_token raises UnauthorizedResponse: the
\* request is answered 401 and its handler is not called
Unauthorized(s, kind, token) ==
    Respond(s, NewReq(s, kind, "start", token, 0, "", "", None),
            Response(401, ReasonUnauthorized, None))

\* ------------------------------------------------------- read-only requests
ProfileByLogin(s) ==
    /\ Arrives(s)
    /\ \E token \in BearerTokens, login \in Logins :
         LET auth == get_current_user_by_token(token, now)
             current_user == The(auth)
         IN  IF auth = None THEN Unauthorized(s, "profile", token)
             ELSE Respond(s, NewReq(s, "profile", "start", token, current_user, login, "", None),
                          send_profile_by_login(current_user, login))
    /\ nreq' = nreq + 1
    /\ UNCHANGED store

PostById(s) ==
    /\ Arrives(s)
    /\ \E token \in BearerTokens, postId \in PostIds :
         LET auth == get_current_user_by_token(token, now)
             current_user == The(auth)
         IN  IF auth = None THEN Unauthorized(s, "post", token)
             ELSE Respond(s, NewReq(s, "post", "start", token, current_user, "", postId, None),
                          send_post(current_user, postId))
    /\ nreq' = nreq + 1
    /\ UNCHANGED store

FeedByLogin(s) ==
    /\ Arrives(s)
    /\ \E token \in BearerTokens, login \in Logins :
         LET auth == get_current_user_by_token(token, now)
             current_user == The(auth)
         IN  IF auth = None THEN Unauthorized(s, "feed", token)
             ELSE Respond(s, NewReq(s, "feed", "start", token, current_user, login, "", None),
                          send_user_posts_by_login(current_user, login))
    /\ nreq' = nreq + 1
    /\ UNCHANGED store

MyPosts(s) ==
    /\ Arrives(s)
    /\ \E token \in BearerTokens :
         LET auth == get_current_user_by_token(token, now)
             current_user == The(auth)
         IN  IF auth = None THEN Unauthorized(s, "my_feed", token)
             ELSE Respond(s, NewReq(s, "my_feed", "start", token, current_user, "", "", None),
                          send_my_posts(current_user))
    /\ nreq' = nreq + 1
    /\ UNCHANGED store

\* ------------------------------------------------------------------ profile
\* PATCH /api/me/profile, the isPublic field (None: the field is not given)
edit_user_data(old_user, isPublic) ==
    [old_user EXCEPT !.is_public = IF isPublic # None THEN The(isPublic) ELSE @]

EditMyProfile(s) ==
    /\ Arrives(s)
    /\ \E token \in BearerTokens, isPublic \in {None, {TRUE}, {FALSE}} :
         LET auth == get_current_user_by_token(token, now)
             current_user == The(auth)
         IN  IF auth = None
             THEN /\ users' = users
                  /\ Unauthorized(s, "edit_profile", token)
             ELSE /\ users' = [users EXCEPT ![current_user] = edit_user_data(@, isPublic)]
                  /\ Respond(s, NewReq(s, "edit_profile", "start", token, current_user,
                                       "", "", isPublic),
                             Response(200, ReasonNone,
                                      {[login |-> users'[current_user].login,
                                        isPublic |-> users'[current_user].is_public]}))
    /\ nreq' = nreq + 1
    /\ UNCHANGED <<friendships, friendship_seq, posts, reactions>>

\* ------------------------------------------------------------------ friends
\* mutant: the handler does not look for the friend among the user's friends
FriendsAddUnchecked(s) ==
    /\ Arrives(s)
    /\ \E token \in BearerTokens, login \in Logins :
         LET auth == get_current_user_by_token(token, now)
             current_user == The(auth)
             req == NewReq(s, "friends_add", "add_friend", token, current_user, login, "", None)
             friend == get_user_by_login(login)
         IN  IF auth = None THEN Unauthorized(s, "friends_add", token)
             ELSE IF users[current_user].login = login THEN Respond(s, req, StatusOk)
             ELSE IF friend = None THEN Respond(s, req, Response(404, ReasonFriend, None))
             ELSE Continue(s, [req EXCEPT !.friend = friend])
    /\ nreq' = nreq + 1
    /\ UNCHANGED store

\* mutant: a login nobody has is answered ok
FriendsAddAnyLogin(s) ==
    /\ Arrives(s)
    /\ \E token \in BearerTokens, login \in Logins :
         LET auth == get_current_user_by_token(token, now)
             current_user == The(auth)
             req == NewReq(s, "friends_add", "add_friend", token, current_user, login, "", None)
             friend == get_user_by_login(login)
         IN  IF auth = None THEN Unauthorized(s, "friends_add", token)
             ELSE IF users[current_user].login = login THEN Respond(s, req, StatusOk)
             ELSE IF friend = None THEN Respond(s, req, StatusOk)
             ELSE IF The(friend) \in get_user_all_friends(current_user)
             THEN Respond(s, req, StatusOk)
             ELSE Continue(s, [req EXCEPT !.friend = friend])
    /\ nreq' = nreq + 1
    /\ UNCHANGED store

\* mutant: the handler does not compare the login with the requester's own
FriendsAddSelf(s) ==
    /\ Arrives(s)
    /\ \E token \in BearerTokens, login \in Logins :
         LET auth == get_current_user_by_token(token, now)
             current_user == The(auth)
             req == NewReq(s, "friends_add", "add_friend", token, current_user, login, "", None)
             friend == get_user_by_login(login)
         IN  IF auth = None THEN Unauthorized(s, "friends_add", token)
             ELSE IF friend = None THEN Respond(s, req, Response(404, ReasonFriend, None))
             ELSE IF The(friend) \in get_user_all_friends(current_user)
             THEN Respond(s, req, StatusOk)
             ELSE Continue(s, [req EXCEPT !.friend = friend])
    /\ nreq' = nreq + 1
    /\ UNCHANGED store

\* POST /api/friends/add up to add_friend
FriendsAdd(s) ==
    /\ Arrives(s)
    /\ \E token \in BearerTokens, login \in Logins :
         LET auth == get_current_user_by_token(token, now)
             current_user == The(auth)
             req == NewReq(s, "friends_add", "add_friend", token, current_user, login, "", None)
             friend == get_user_by_login(login)
         IN  IF auth = None THEN Unauthorized(s, "friends_add", token)
             ELSE IF users[current_user].login = login THEN Respond(s, req, StatusOk)
             ELSE IF friend = None THEN Respond(s, req, Response(404, ReasonFriend, None))
             ELSE IF The(friend) \in get_user_all_friends(current_user)
             THEN Respond(s, req, StatusOk)
             ELSE Continue(s, [req EXCEPT !.friend = friend])
    /\ nreq' = nreq + 1
    /\ UNCHANGED store

\* add_friend: insert and commit
add_friend(user_id, friend_id) ==
    friendships \cup {[id |-> friendship_seq + 1, user_id |-> user_id, friend_id |-> friend_id,
                       added_at |-> now]}

AddFriend(s) ==
    /\ reqs[s].pc = "add_friend"
    /\ friendships' = add_friend(reqs[s].user, The(reqs[s].friend))
    /\ friendship_seq' = friendship_seq + 1
    /\ Respond(s, reqs[s], StatusOk)
    /\ UNCHANGED <<users, posts, reactions, nreq>>

\* POST /api/friends/remove up to get_user_friend
FriendsRemove(s) ==
    /\ Arrives(s)
    /\ \E token \in BearerTokens, login \in Logins :
         LET auth == get_current_user_by_token(token, now)
             current_user == The(auth)
             req == NewReq(s, "friends_remove", "get_user_friend", token, current_user, login, "", None)
             friend == get_user_by_login(login)
         IN  IF auth = None THEN Unauthorized(s, "friends_remove", token)
             ELSE IF users[current_user].login = login THEN Respond(s, req, StatusOk)
             ELSE IF friend = None THEN Respond(s, req, StatusOk)
             ELSE IF The(friend) \notin get_user_all_friends(current_user)
             THEN Respond(s, req, StatusOk)
             ELSE Continue(s, [req EXCEPT !.friend = friend])
    /\ nreq' = nreq + 1
    /\ UNCHANGED store

\* get_user_friend (one_or_none), then remove_friend: delete and commit.  With
\* no row the delete of None raises; with several rows one_or_none raises.
remove_friend(friendship) == friendships \ friendship

RemoveFriend(s) ==
    /\ reqs[s].pc = "get_user_friend"
    /\ LET friendship == get_user_friend(reqs[s].user, The(reqs[s].friend))
       IN  IF Cardinality(friendship) = 1
           THEN /\ friendships' = remove_friend(friendship)
                /\ Respond(s, reqs[s], StatusOk)
           ELSE /\ friendships' = friendships
                /\ Respond(s, reqs[s], ServerError)
    /\ UNCHANGED <<users, friendship_seq, posts, reactions, nreq>>

\* GET /api/friends up to the second query: the page of friend users is read
FriendsList(s) ==
    /\ Arrives(s)
    /\ \E token \in BearerTokens, offset \in 0..1, limit \in {1, 5} :
         LET auth == get_current_user_by_token(token, now)
             current_user == The(auth)
             req == NewReq(s, "friends_list", "added_ats", token, current_user, "", "", None)
         IN  IF auth = None THEN Unauthorized(s, "friends_list", token)
             ELSE Continue(s, [req EXCEPT !.offset = offset, !.limit = limit,
                                          !.friends = get_user_friends_for_pagination(
                                                          current_user, offset, limit)])
    /\ nreq' = nreq + 1
    /\ UNCHANGED store

\* the page of added_at is read, the two pages are zipped into the response
FriendsAddedAt(s) ==
    /\ reqs[s].pc = "added_ats"
    /\ LET added_ats == get_user_friends_added_at_for_pagination(
                            reqs[s].user, reqs[s].offset, reqs[s].limit)
       IN  Respond(s, reqs[s],
                   Response(200, ReasonNone, {get_friends_list(reqs[s].friends, added_ats)}))
    /\ UNCHANGED <<store, nreq>>

\* ---------------------------------------------------------------- reactions
\* POST /api/posts/{postId}/like and /dislike arrive
SendReaction(s) ==
    /\ Arrives(s)
    /\ \E kind \in ReactionKinds, token \in BearerTokens, postId \in PostIds :
         LET auth == get_current_user_by_token(token, now)
             current_user == The(auth)
         IN  IF auth = None THEN Unauthorized(s, kind, token)
             ELSE Continue(s, NewReq(s, kind, "get_post_by_id", token, current_user,
                                     "", postId, None))
    /\ nreq' = nreq + 1
    /\ UNCHANGED store

\* post = await get_post_by_id(...)
GetPostById(s) ==
    /\ reqs[s].pc = "get_post_by_id"
    /\ Continue(s, [reqs[s] EXCEPT !.pc = "get_user_reaction_to_post",
                                   !.post = get_post_by_id(reqs[s].post_id)])
    /\ UNCHANGED <<store, nreq>>

\* reaction = await get_user_reaction_to_post(...): one_or_none raises
\* MultipleResultsFound on two rows
GetUserReactionToPost(s) ==
    /\ reqs[s].pc = "get_user_reaction_to_post"
    /\ LET rows == get_user_reaction_to_post(reqs[s].user, reqs[s].post_id)
       IN  IF Cardinality(rows) > 1 THEN Respond(s, reqs[s], ServerError)
           ELSE Continue(s, [reqs[s] EXCEPT !.reaction = rows,
                                            !.pc = IF rows = None THEN "add_new_user_reaction"
                                                   ELSE "add_to_post"])
    /\ UNCHANGED <<store, nreq>>

\* add_new_user_reaction: insert a row with no reaction_type and commit.
\* reactions.post_id is a foreign key to posts.id: with no such post the
\* insert raises IntegrityError, nothing is written, the response is 500.
\* mutant: the row is inserted as a like
add_new_user_reaction_liked(user_id, post_id) ==
    [id |-> Cardinality(reactions) + 1, user_id |-> user_id, post_id |-> post_id,
     reaction_type |-> "like"]

add_new_user_reaction(user_id, post_id) ==
    [id |-> Cardinality(reactions) + 1, user_id |-> user_id, post_id |-> post_id,
     reaction_type |-> NullType]

AddNewUserReaction(s) ==
    /\ reqs[s].pc = "add_new_user_reaction"
    /\ IF reqs[s].post_id \in DOMAIN posts
       THEN LET new_reaction == add_new_user_reaction(reqs[s].user, reqs[s].post_id)
            IN  /\ reactions' = reactions \cup {new_reaction}
                /\ Continue(s, [reqs[s] EXCEPT !.pc = "add_to_post",
                                               !.reaction = {new_reaction}])
       ELSE /\ reactions' = reactions
            /\ Respond(s, reqs[s], ServerError)
    /\ UNCHANGED <<users, friendships, friendship_seq, posts, nreq>>

\* add_like_to_post / add_dislike_to_post up to the commit: the counters and
\* the type are computed from the objects the session read, then written.
\* With no post the attribute access on None raises.
AddToPost(s) ==
    /\ reqs[s].pc = "add_to_post"
    /\ IF reqs[s].post = None
       THEN /\ Respond(s, reqs[s], ServerError)
            /\ UNCHANGED <<posts, reactions>>
       ELSE LET post == The(reqs[s].post)
                reaction == The(reqs[s].reaction)
                new == IF reqs[s].kind = "like" THEN add_like_to_post(post, reaction)
                       ELSE add_dislike_to_post(post, reaction)
            IN  /\ posts' = [posts EXCEPT ![post.id] = flush_post(@, post, new)]
                /\ reactions' = {flush_reaction(row, reaction, new) : row \in reactions}
                /\ Continue(s, [reqs[s] EXCEPT !.pc = "refresh"])
    /\ UNCHANGED <<users, friendships, friendship_seq, nreq>>

\* db_session.refresh(post), get_user_by_id(post.author), the response
Refresh(s) ==
    /\ reqs[s].pc = "refresh"
    /\ LET post == posts[reqs[s].post_id]
       IN  Respond(s, [reqs[s] EXCEPT !.post = {post}],
                   PostResponse(post, users[post.author].login))
    /\ UNCHANGED <<store, nreq>>

\* The client disconnects while the handler awaits: the task is cancelled,
\* the session is closed, what was committed stays.
Cancel(s) ==
    /\ ~Free(s)
    /\ Respond(s, reqs[s], Response(0, ReasonCancelled, None))
    /\ UNCHANGED <<store, nreq>>

\* ------------------------------------------------------------- registration
Countries == {"RU"}

upper(code) == IF code = "ru" THEN "RU" ELSE code

get_country_by_alpha2(alpha2) == {country \in Countries : country = alpha2}

\* or_(login ==, email ==, phone ==); SQLAlchemy renders User.phone == None
\* as "phone IS NULL", which is what equality of the optional values gives
get_users_by(user_data) ==
    {id \in DOMAIN users : \/ users[id].login = user_data.login
                           \/ users[id].email = user_data.email
                           \/ users[id].phone = user_data.phone}

\* the request bodies of POST /api/auth/register
UserModel ==
    [login : {"alice", "carol"}, email : {"alice@mail", "carol@mail"},
     countryCode : {"ru", "zz"}, isPublic : BOOLEAN, phone : {None, {"+1"}, {"+7"}}]

UserProfileResponseModel(user) ==
    [login |-> user.login, email |-> user.email, isPublic |-> user.is_public,
     phone |-> user.phone]

RegisterNewUser(s) ==
    /\ Arrives(s)
    /\ \E data \in UserModel :
         LET user_data == [data EXCEPT !.countryCode = upper(@)]
             r == [NewReq(s, "register", "get_users_by", "", 0, user_data.login, "",
                          {user_data.isPublic})
                       EXCEPT !.token = None, !.user_data = {user_data}]
         IN  IF get_country_by_alpha2(user_data.countryCode) = None
             THEN Respond(s, r, Response(400, ReasonCountry, None))
             ELSE Continue(s, r)
    /\ nreq' = nreq + 1
    /\ UNCHANGED store

GetUsersBy(s) ==
    /\ reqs[s].pc = "get_users_by"
    /\ LET check_user == get_users_by(The(reqs[s].user_data))
       IN  IF check_user # {}
           THEN Respond(s, reqs[s], Response(409, ReasonConflict, None))
           ELSE Continue(s, [reqs[s] EXCEPT !.pc = "add_new_user"])
    /\ UNCHANGED <<store, nreq>>

\* the new row takes the next id of the autoincrement column
add_new_user(user_data) ==
    LET new_user == [login |-> user_data.login, email |-> user_data.email,
                     is_public |-> user_data.isPublic, phone |-> user_data.phone]
    IN  users @@ ((Cardinality(DOMAIN users) + 1) :> new_user)

AddNewUser(s) ==
    /\ reqs[s].pc = "add_new_user"
    /\ users' = add_new_user(The(reqs[s].user_data))
    /\ Respond(s, reqs[s],
               Response(201, ReasonNone,
                        {UserProfileResponseModel(users'[Cardinality(DOMAIN users) + 1])}))
    /\ UNCHANGED <<friendships, friendship_seq, posts, reactions, nreq>>

\* ------------------------------------------------------------- token life
\* the explicit lifetimes create_access_token is called with, in ticks
ExpireDeltas == {{d} : d \in 0..MaxDelta}

\* create_access_token(data={"sub": sub}, expire_delta=...) is called
CreateAccessToken ==
    /\ \E sub \in Logins, expire_delta \in ExpireDeltas :
         issued' = {[token |-> create_access_token([sub |-> {sub}], expire_delta, now),
                     sub |-> sub, expire_delta |-> expire_delta, at |-> now]}
    /\ decoded' = None
    /\ UNCHANGED <<store, reqs, nreq, response, now>>

\* POST /api/auth/sign-in with the login and password of a user: the token
\* is created with expire_delta=None
SendAccessToken ==
    /\ \E user \in DOMAIN users :
         LET access_token_expire == None
         IN  issued' = {[token |-> create_access_token([sub |-> {users[user].login}],
                                                       access_token_expire, now),
                         sub |-> users[user].login, expire_delta |-> access_token_expire,
                         at |-> now]}
    /\ decoded' = None
    /\ UNCHANGED <<store, reqs, nreq, response, now>>

\* decode_access_token is called with the token created last
DecodeAccessToken ==
    /\ issued # None
    /\ decoded' = {[at |-> now, payload |-> decode_access_token(The(issued).token, now)]}
    /\ UNCHANGED <<store, reqs, nreq, response, now, issued>>

\* The clock advances by one tick, up to MaxClock ticks after the start and
\* after the instant one default lifetime later.
Tick ==
    /\ now < MaxClock \/ (now >= Lifetime /\ now < Lifetime + MaxClock)
    /\ now' = now + 1
    /\ UNCHANGED <<store, reqs, nreq, response, issued, decoded>>

\* The clock advances by the default lifetime of a token.
Sleep ==
    /\ now <= MaxClock
    /\ now' = now + Lifetime
    /\ UNCHANGED <<store, reqs, nreq, response, issued, decoded>>

\* the service with one user more
InitCrowd ==
    /\ users = [id \in 1..(MaxUsers + 1) |-> [login |-> LoginOf(id), email |-> EmailOf(id), is_public |-> FALSE,
                     phone |-> PhoneOf(id)]]
    /\ friendships = {}
    /\ friendship_seq = 0
    /\ posts = [p \in {FirstPost} |->
                    [id |-> p, author |-> 1, likes_count |-> 0, dislikes_count |-> 0]]
    /\ reactions = {}
    /\ reqs = [s \in Slots |-> IdleReq]
    /\ nreq = 0
    /\ response = IdleReq
    /\ now = 0
    /\ issued = None
    /\ decoded = None

\* --------------------------------------------------------------------- Next
\* the endpoints that read profiles and posts through the access gate
ReadStep(s) ==
    \/ ProfileByLogin(s)
    \/ PostById(s)
    \/ FeedByLogin(s)
    \/ MyPosts(s)

\* the endpoints that write users and friendships
GraphStep(s) ==
    \/ EditMyProfile(s)
    \/ FriendsAdd(s)
    \/ AddFriend(s)
    \/ FriendsRemove(s)
    \/ RemoveFriend(s)

\* the endpoints that write reactions and the counters of posts
LedgerStep(s) ==
    \/ SendReaction(s)
    \/ GetPostById(s)
    \/ GetUserReactionToPost(s)
    \/ AddNewUserReaction(s)
    \/ AddToPost(s)
    \/ Refresh(s)

\* the whole service, requests running concurrently
RegisterStep(s) ==
    \/ RegisterNewUser(s)
    \/ GetUsersBy(s)
    \/ AddNewUser(s)

Next ==
    \E s \in Slots :
        ReadStep(s) \/ GraphStep(s) \/ LedgerStep(s) \/ RegisterStep(s) \/ Cancel(s)

Spec == Init /\ [][Next]_vars

\* like and dislike requests alone, running concurrently
NextLedger == \E s \in Slots : LedgerStep(s) \/ Cancel(s)

SpecLedger == Init /\ [][NextLedger]_vars

\* like and dislike requests alone, one at a time
NextLedgerSeq == LedgerStep(1) \/ Cancel(1)

SpecLedgerSeq == Init /\ [][NextLedgerSeq]_vars

\* profile edits, friend requests and reads, one at a time
NextGateSeq == ReadStep(1) \/ GraphStep(1) \/ Cancel(1)

SpecGateSeq == Init /\ [][NextGateSeq]_vars

\* every endpoint, one request at a time
NextSeq == ReadStep(1) \/ GraphStep(1) \/ LedgerStep(1) \/ Cancel(1)

SpecSeq == Init /\ [][NextSeq]_vars

\* friend requests alone, running concurrently
FriendStep(s) ==
    \/ FriendsAdd(s)
    \/ AddFriend(s)
    \/ FriendsRemove(s)
    \/ RemoveFriend(s)

NextFriends == \E s \in Slots : FriendStep(s) \/ Cancel(s)

SpecFriends == Init /\ [][NextFriends]_vars

\* the friends of a user are listed, friends are added and removed, one
\* request at a time, while the clock advances
ListStep(s) ==
    \/ FriendsList(s)
    \/ FriendsAddedAt(s)

NextListingSeq == FriendStep(1) \/ ListStep(1) \/ Cancel(1) \/ Tick

SpecListingSeq == InitCrowd /\ [][NextListingSeq]_vars

\* tokens are created and decoded while the clock advances
\* registration alone, with the slots running concurrently
NextRegister == \E s \in Slots : RegisterStep(s) \/ Cancel(s)

SpecRegister == Init /\ [][NextRegister]_vars

\* registration, one request at a time
NextRegisterSeq == RegisterStep(1) \/ Cancel(1)

SpecRegisterSeq == Init /\ [][NextRegisterSeq]_vars

NextToken ==
    \/ CreateAccessToken
    \/ SendAccessToken
    \/ DecodeAccessToken
    \/ Tick
    \/ Sleep

SpecToken == Init /\ [][NextToken]_vars

\* ------------------------------------------------------------------- claims
\* no request is in flight
Quiet == \A s \in Slots : Free(s)

\* the last request came with a token that names a user and ran to its response
Answered ==
    /\ response.pc = "done"
    /\ response.reason \notin {ReasonCancelled, ReasonUnauthorized}

\* the number of reaction rows of a post with a type
Tally(rows, post_id, type) ==
    Cardinality({r \in rows : r.post_id = post_id /\ r.reaction_type = type})

\* the counters of every post are the tallies of its reaction rows
CountersMatch ==
    \A p \in DOMAIN posts :
        /\ posts[p].likes_count = Tally(reactions, p, "like")
        /\ posts[p].dislikes_count = Tally(reactions, p, "dislike")

\* the reaction state of a user on a post: none when there is no row or the
\* row has no type
ReactionState(rows, user_id, post_id) ==
    LET mine == {r \in rows : r.post_id = post_id /\ r.user_id = user_id}
    IN  IF mine = {} THEN "none"
        ELSE IF \A r \in mine : r.reaction_type = NullType THEN "none"
        ELSE (CHOOSE r \in mine : r.reaction_type # NullType).reaction_type

\* the transition table of the reaction ledger: <<likes delta, dislikes delta, new state>>
Transition(state, requested) ==
    IF state = "none" /\ requested = "like" THEN <<1, 0, "like">>
    ELSE IF state = "none" /\ requested = "dislike" THEN <<0, 1, "dislike">>
    ELSE IF state = "like" /\ requested = "dislike" THEN <<-1, 1, "dislike">>
    ELSE IF state = "dislike" /\ requested = "like" THEN <<1, -1, "like">>
    ELSE <<0, 0, state>>

\* the access gate: requester R may read target T
Gate(R, T) ==
    \/ R = T
    \/ users[T].is_public
    \/ \E f \in friendships : f.user_id = R /\ f.friend_id = T

\* C1: with the like/dislike requests run one at a time, the likes_count and
\* dislikes_count of every post equal the numbers of its reaction rows of type
\* like and dislike, in every state and so after every sequence of requests.
C1_CountersEqualTallies == CountersMatch

C1_Witness ==
    /\ Quiet /\ Answered /\ nreq = MaxReqs
    /\ posts[FirstPost].likes_count = 1
    /\ posts[FirstPost].dislikes_count = 1

\* C2: once all of a set of concurrently run like/dislike requests have
\* committed, the counters of the post equal the tallies of its reaction rows
\* (no update is lost).
C2_NoLostUpdate == Quiet => CountersMatch

\* C3: a like/dislike request that runs alone to its response on an existing
\* post changes the likes_count, the dislikes_count and the user's reaction
\* state as the transition table says.
C3_TransitionTable ==
    (Quiet /\ Answered /\ response.kind \in ReactionKinds
           /\ response.post_id \in DOMAIN response.pre.posts) =>
        LET p == response.post_id
            before == response.pre.posts[p]
            t == Transition(ReactionState(response.pre.reactions, response.user, p),
                            response.kind)
        IN  /\ posts[p].likes_count = before.likes_count + t[1]
            /\ posts[p].dislikes_count = before.dislikes_count + t[2]
            /\ ReactionState(reactions, response.user, p) = t[3]

\* like, like, dislike by one user on a post at (0,0): the dislike takes (1,0) to (0,1)
C3_Witness ==
    /\ Quiet /\ Answered /\ nreq = MaxReqs
    /\ response.kind = "dislike" /\ response.prev.kind = "like"
    /\ response.prev.user = response.user
    /\ response.pre.posts[FirstPost].likes_count = 1
    /\ response.pre.posts[FirstPost].dislikes_count = 0
    /\ posts[FirstPost].likes_count = 0
    /\ posts[FirstPost].dislikes_count = 1

\* the last request repeats the one answered before it
Repeats ==
    /\ response.prev.kind = response.kind
    /\ response.prev.user = response.user
    /\ response.prev.login = response.login
    /\ response.prev.post_id = response.post_id

\* C4: the same like or dislike by the same user on the same post, made twice
\* in a row, leaves the posts' counters and the user's reaction state after the
\* second request as they were after the first.
C4_ReactionIdempotent ==
    (Quiet /\ Answered /\ response.kind \in ReactionKinds /\ Repeats) =>
        /\ posts = response.pre.posts
        /\ ReactionState(reactions, response.user, response.post_id)
             = ReactionState(response.pre.reactions, response.user, response.post_id)

C4_Witness ==
    /\ Quiet /\ Answered /\ response.kind = "like" /\ Repeats
    /\ response.status = 200
    /\ posts[FirstPost].likes_count = 1
    /\ ReactionState(reactions, response.user, FirstPost) = "like"

\* the user a login names, when the login names one
Target == The(get_user_by_login(response.login))

\* C5: GET /api/profiles/{login} by R for an existing user T answers 200 with
\* T's profile exactly when R = T, T is public or the edge (R, T) exists; the
\* edge (T, R) alone grants nothing.
C5_ProfileGate ==
    (Quiet /\ Answered /\ response.kind = "profile"
           /\ get_user_by_login(response.login) # None) =>
        /\ (response.status = 200) <=> Gate(response.user, Target)
        /\ response.status = 200 => response.body = {UserResponseModel(Target)}

\* a private T has added R, R has not added T, and R is refused T's profile
C5_Witness ==
    /\ Quiet /\ Answered /\ response.kind = "profile"
    /\ get_user_by_login(response.login) # None
    /\ get_user_friend(Target, response.user) # {}
    /\ get_user_friend(response.user, Target) = {}
    /\ ~users[Target].is_public
    /\ response.status # 200

\* the author of the post or feed the last request asked for, when there is one
Author ==
    IF response.kind = "post"
    THEN {posts[p].author : p \in {q \in DOMAIN posts : q = response.post_id}}
    ELSE get_user_by_login(response.login)

\* C6: GET /api/posts/{postId} and GET /api/posts/feed/{login} by R for a post
\* or feed of an existing author T answer 200 exactly when R = T, T is public
\* or the edge (R, T) exists.
C6_PostGate ==
    (Quiet /\ Answered /\ response.kind \in {"post", "feed"} /\ Author # None) =>
        ((response.status = 200) <=> Gate(response.user, The(Author)))

\* the answer of a read endpoint to requester R when its target does not exist
AbsentAnswer(kind, R) ==
    LET resp == IF kind = "profile" THEN send_profile_by_login(R, UnknownLogin)
                ELSE IF kind = "post"
                THEN send_post(R, CHOOSE p \in PostIds : p \notin DOMAIN posts)
                ELSE send_user_posts_by_login(R, UnknownLogin)
    IN  <<resp.status, resp.reason>>

\* C7: a read endpoint that refuses R an existing target answers with the
\* status and reason it gives R for a target that does not exist.
C7_RefusalLikeAbsence ==
    (Quiet /\ Answered /\ response.kind \in ReadKinds /\ response.status # 200
           /\ (IF response.kind = "profile" THEN get_user_by_login(response.login) # None
               ELSE Author # None)) =>
        <<response.status, response.reason>> = AbsentAnswer(response.kind, response.user)

\* C8 as claimed: GET /api/profiles/{login} answers 200 with the profile when
\* access is allowed and 404 when the gate refuses or no user has the login.
C8_ProfileNotFound404 ==
    (Quiet /\ Answered /\ response.kind = "profile") =>
        IF get_user_by_login(response.login) # None /\ Gate(response.user, Target)
        THEN response.status = 200 /\ response.body = {UserResponseModel(Target)}
        ELSE response.status = 404

\* C8 as amended: GET /api/profiles/{login} answers 200 with the profile when
\* access is allowed and 403, with one reason, both when the gate refuses and
\* when no user has the login.
C8_ProfileRefused403 ==
    (Quiet /\ Answered /\ response.kind = "profile") =>
        IF get_user_by_login(response.login) # None /\ Gate(response.user, Target)
        THEN response.status = 200 /\ response.body = {UserResponseModel(Target)}
        ELSE response.status = 403 /\ response.reason = ReasonProfile /\ response.body = None

\* the profile of a login nobody has is asked for
C8_Witness ==
    /\ Quiet /\ Answered /\ response.kind = "profile"
    /\ response.login = UnknownLogin
    /\ response.status = 403

\* C9: a like or dislike of a post id that names no post answers 404 and
\* writes nothing: no reaction row, no counter.
C9_AbsentPost404 ==
    (Quiet /\ Answered /\ response.kind \in ReactionKinds
           /\ response.post_id \notin DOMAIN response.pre.posts) =>
        /\ response.status = 404
        /\ posts = response.pre.posts
        /\ reactions = response.pre.reactions

\* C10: A adds an existing user B twice in a row: both calls answer ok, one
\* row (A, B) exists, and A has as many friendship rows after the second call
\* as after the first.
C10_FriendAddIdempotent ==
    (Quiet /\ Answered /\ response.kind = "friends_add" /\ Repeats
           /\ get_user_by_login(response.login) # None /\ Target # response.user) =>
        /\ response.prev.status = 200 /\ response.status = 200
        /\ response.body = {[status |-> "ok"]}
        /\ Cardinality(get_user_friend(response.user, Target)) = 1
        /\ Cardinality({f \in friendships : f.user_id = response.user})
             = Cardinality({f \in response.pre.friendships : f.user_id = response.user})

C10_Witness ==
    /\ Quiet /\ Answered /\ response.kind = "friends_add" /\ Repeats
    /\ get_user_by_login(response.login) # None /\ Target # response.user
    /\ Cardinality(get_user_friend(response.user, Target)) = 1

\* C11: POST /api/friends/remove by A for target B answers status ok; when
\* the edge (A, B) existed no row (A, B) remains and A is refused the profile
\* of a private B; when the edge did not exist, B's login names no user or B
\* is A, nothing is changed.
C11_RemoveDeletesEdge ==
    (Quiet /\ Answered /\ response.kind = "friends_remove") =>
        /\ response.status = 200 /\ response.body = {[status |-> "ok"]}
        /\ IF /\ get_user_by_login(response.login) # None
              /\ \E f \in response.pre.friendships :
                    f.user_id = response.user /\ f.friend_id = Target
           THEN /\ get_user_friend(response.user, Target) = {}
                /\ (Target # response.user /\ ~users[Target].is_public) =>
                      send_profile_by_login(response.user, response.login).status # 200
           ELSE friendships = response.pre.friendships

\* C12: POST /api/friends/add with a login no user has answers 404 and adds
\* no friendship row; every other add (a user not yet added, a user added
\* already, the requester itself) answers 200 with status ok.
C12_AddUnknown404 ==
    (Answered /\ response.kind = "friends_add") =>
        IF get_user_by_login(response.login) = None
        THEN /\ response.status = 404 /\ response.reason = ReasonFriend
             /\ friendships = response.pre.friendships
        ELSE response.status = 200 /\ response.body = {[status |-> "ok"]}

\* rows exist, and the add of a login nobody has is answered 404
C12_Witness ==
    /\ Answered /\ response.kind = "friends_add"
    /\ response.login = UnknownLogin
    /\ response.status = 404
    /\ friendships # {}

\* C13: an add of the requester's own login answers ok and changes nothing; no
\* sequence of requests creates a friendship row with user_id = friend_id.
C13_NoSelfEdge ==
    /\ \A f \in friendships : f.user_id # f.friend_id
    /\ (Answered /\ response.kind = "friends_add"
                 /\ users[response.user].login = response.login) =>
          /\ response.status = 200 /\ response.body = {[status |-> "ok"]}
          /\ friendships = response.pre.friendships

\* a user who has a friend adds itself
C13_Witness ==
    /\ Answered /\ response.kind = "friends_add"
    /\ users[response.user].login = response.login
    /\ response.status = 200
    /\ \E f \in friendships : f.user_id = response.user

\* the instant a token expires as its payload says, in ticks
ExpOf(token) == The(token.payload.exp) * TicksPerSecond

\* C14: a token created with an explicit lifetime of 0 is never decoded to a
\* payload (decode_access_token returns None at every instant from its
\* creation on), and no token is decoded to a payload at or after its exp.
C14_ExpiredRejected ==
    decoded # None =>
        LET t == The(issued)
            d == The(decoded)
        IN  /\ t.expire_delta = {0} => d.payload = None
            /\ d.at >= ExpOf(t.token) => d.payload = None

\* C15: a token created for subject s with an explicit lifetime t > 0 is
\* decoded, at every instant before creation + t, to the payload of exactly
\* sub = s and exp = creation + t; created with no lifetime, its exp is
\* creation + the configured (days, hours, minutes).
C15_RoundTrip ==
    decoded # None =>
        LET t == The(issued)
            d == The(decoded)
        IN  /\ (t.expire_delta # None /\ The(t.expire_delta) > 0
                   /\ d.at < t.at + The(t.expire_delta)) =>
                  /\ d.payload # None
                  /\ The(d.payload).sub = {t.sub}
                  /\ The(The(d.payload).exp) * TicksPerSecond = t.at + The(t.expire_delta)
            /\ t.expire_delta = None => ExpOf(t.token) = t.at + Lifetime

\* the token fails: it is no JWT or not signed with the key, it has expired,
\* its payload has no sub, or its sub is the login of no user
TokenFails(token) ==
    \/ ~token.wellformed
    \/ token.key # RANDOM_SECRET
    \/ token.payload.exp # None /\ The(token.payload.exp) * TicksPerSecond <= now
    \/ token.payload.sub = None
    \/ get_user_by_login(The(token.payload.sub)) = None

\* C16: a request to a private endpoint whose token fails, for whichever
\* cause, is answered 401 with the one reason text and no body; the handler
\* does not run (the request holds no user and no object read) and no table
\* is changed.
C16_Unauthorized401 ==
    (Quiet /\ response.pc = "done" /\ response.reason # ReasonCancelled
           /\ TokenFails(The(response.token))) =>
        /\ response.status = 401
        /\ response.reason = ReasonUnauthorized
        /\ response.body = None
        /\ response.user = 0
        /\ response.post = None /\ response.reaction = None /\ response.friend = None
        /\ users = response.pre.users
        /\ posts = response.pre.posts
        /\ reactions = response.pre.reactions
        /\ friendships = response.pre.friendships

\* alice has a friend, and her request with a token signed with another key
\* is answered 401
C16_Witness ==
    /\ Quiet /\ response.pc = "done"
    /\ The(response.token).key # RANDOM_SECRET
    /\ response.status = 401
    /\ friendships # {}

\* C17: a like/dislike request writes its reaction row, the type of the row
\* and the counters of the post in one commit: no committed state holds a
\* reaction row whose type is not written yet.
C17_OneCommit == \A r \in reactions : r.reaction_type \in ReactionKinds

\* C18: a like/dislike request aborted at an await leaves nothing half
\* applied: the counters of every post equal the tallies of its like and
\* dislike rows (a row with no type counts as none), and the counters and the
\* user's reaction state are either those at the arrival of the request or
\* those of the request carried out.
C18_AbortNotHalfApplied ==
    (Quiet /\ response.reason = ReasonCancelled /\ response.kind \in ReactionKinds) =>
        LET p == response.post_id
            u == response.user
            before == ReactionState(response.pre.reactions, u, p)
            t == Transition(before, response.kind)
        IN  /\ CountersMatch
            /\ \/ /\ posts = response.pre.posts
                  /\ ReactionState(reactions, u, p) = before
               \/ /\ p \in DOMAIN posts
                  /\ posts[p].likes_count = response.pre.posts[p].likes_count + t[1]
                  /\ posts[p].dislikes_count = response.pre.posts[p].dislikes_count + t[2]
                  /\ ReactionState(reactions, u, p) = t[3]

\* a post has a like; the request of another user is aborted after the commit
\* that created its reaction row
C18_Witness ==
    /\ Quiet /\ response.reason = ReasonCancelled /\ response.kind \in ReactionKinds
    /\ posts[FirstPost].likes_count = 1
    /\ \E r \in reactions : /\ r.user_id = response.user /\ r.post_id = FirstPost
                            /\ r.reaction_type = NullType

\* C19: in every state, also with like/dislike requests running
\* concurrently, the likes_count and dislikes_count of every post are >= 0.
C19_CountersNonNegative ==
    \A p \in DOMAIN posts : posts[p].likes_count >= 0 /\ posts[p].dislikes_count >= 0

\* C20: with POST /api/friends/add requests running concurrently, every
\* state holds at most one friendship row per (user_id, friend_id).
C20_OneRowPerPair ==
    \A f, g \in friendships :
        (f.user_id = g.user_id /\ f.friend_id = g.friend_id) => f = g

\* C21: with like/dislike requests running concurrently, every state holds
\* at most one reaction row per (user_id, post_id), so the lookup of a user's
\* reaction to a post finds no row or one.
C21_OneReactionPerPair ==
    \A r, q \in reactions :
        (r.user_id = q.user_id /\ r.post_id = q.post_id) => r = q

\* C22: every entry GET /api/friends returns pairs the login of a friend
\* with the added_at of the edge from the current user to that friend, for
\* every offset and limit, also when an edge of the user is added or removed
\* between the two queries of the handler.
C22_FriendsListPairs ==
    (Answered /\ response.kind = "friends_list") =>
        LET friends_list == The(response.body)
        IN  \A i \in DOMAIN friends_list :
                \E f \in friendships \cup response.pre.friendships :
                    /\ f.user_id = response.user
                    /\ users[f.friend_id].login = friends_list[i].login
                    /\ f.added_at = friends_list[i].addedAt

\* C23: a like or dislike of a post whose author is private, is not the
\* requester and has not been added by the requester returns no post data
\* and records no reaction.
C23_ReactionBehindGate ==
    (Quiet /\ Answered /\ response.kind \in ReactionKinds
           /\ response.post_id \in DOMAIN posts
           /\ ~Gate(response.user, posts[response.post_id].author)) =>
        /\ response.status # 200
        /\ response.body = None
        /\ reactions = response.pre.reactions
        /\ posts = response.pre.posts

\* C24: every entry of GET /api/posts/feed/my and /api/posts/feed/{login}
\* reports the stored likes_count as likesCount and the stored dislikes_count
\* as dislikesCount, the values GET /api/posts/{postId} reports for the post.
C24_FeedCounters ==
    (Quiet /\ Answered /\ response.kind \in {"feed", "my_feed"} /\ response.status = 200) =>
        \A entry \in response.body :
            /\ entry.likesCount = posts[entry.id].likes_count
            /\ entry.dislikesCount = posts[entry.id].dislikes_count
            /\ entry = PostModel(posts[entry.id], entry.author)

\* C25: no two users have the same login, whatever the interleaving of
\* concurrent POST /api/auth/register requests.
C25_LoginsUnique ==
    \A a, b \in DOMAIN users : users[a].login = users[b].login => a = b

Clash(user_data, rows) ==
    \E id \in DOMAIN rows :
        \/ rows[id].login = user_data.login
        \/ rows[id].email = user_data.email
        \/ (user_data.phone # None /\ rows[id].phone = user_data.phone)

\* C26: a registration with a valid country code is answered 409, and
\* creates no user, exactly when an existing user has the same login, the
\* same email or the same non-null phone; otherwise it is answered 201 and
\* the user is created.  Two absent phones are not a clash.
C26_ConflictIffClash ==
    (Quiet /\ Answered /\ response.kind = "register" /\ response.status # 400) =>
        LET user_data == The(response.user_data)
        IN  IF Clash(user_data, response.pre.users)
            THEN response.status = 409 /\ users = response.pre.users
            ELSE /\ response.status = 201
                 /\ DOMAIN users # DOMAIN response.pre.users
                 /\ \E id \in DOMAIN users : users[id].login = user_data.login

====
